---------------------------- MODULE Spec2Model ----------------------------
(***************************************************************************)
(* Model of the E_video upload service.  Three variants of the service     *)
(* live in the repository:                                                 *)
(*   "A"  src/server.js                                                    *)
(*   "B"  src/unnamed/part_000, lines 1-185                                *)
(*   "C"  src/unnamed/part_000, lines 187-370                              *)
(* Texts are sequences of one-character strings.                           *)
(***************************************************************************)
EXTENDS Integers, Sequences, FiniteSets, TLC

(* ------------------------------ bounds -------------------------------- *)
MaxWrapLen == 5
MaxWidth == 4
MaxEscLen == 4
MaxFieldChars == 3
MaxClock == 1
NumRequests == 2

(* --------------------------- characters ------------------------------- *)
BS == "\\"
COLON == ":"
QUOTE == "'"
LF == "\n"
SP == " "
COMMA == ","
DOT == "."

WrapAlphabet == {"a", "b", SP, LF}
EscAlphabet == {BS, COLON, QUOTE, LF, "n", COMMA, DOT}
FieldAlphabet == {BS, COLON, QUOTE, "a", SP}

Variants == {"A", "B", "C"}

VARIABLES
    \* wrapText, run as a loop, both length tests side by side
    wpc, wtext, wmax, words, wi, linesA, curA, linesB, curB, outA, outB,
    \* escapeText on a free text
    epc, etext, evariant, eout,
    \* text block construction in processVideoWithBackground
    bpc, fields, bvariant, textBlock,
    \* the /upload handler
    variant, clock, uploads, processed, pc, uerr, rfiles, fieldsOk,
    outName, procOk, responses, unhandled

wrapVars == <<wpc, wtext, wmax, words, wi, linesA, curA, linesB, curB, outA, outB>>
escVars == <<epc, etext, evariant, eout>>
blockVars == <<bpc, fields, bvariant, textBlock>>
upVars == <<variant, clock, uploads, processed, pc, uerr, rfiles, fieldsOk,
            outName, procOk, responses, unhandled>>
vars == <<wrapVars, escVars, blockVars, upVars>>

(* ======================= text.split(" ") ============================== *)
\* String.prototype.split(" "): always at least one (possibly empty) token
RECURSIVE SplitFrom(_, _, _, _)
SplitFrom(text, i, cur, acc) ==
    IF i > Len(text) THEN Append(acc, cur)
    ELSE IF text[i] = SP THEN SplitFrom(text, i + 1, <<>>, Append(acc, cur))
    ELSE SplitFrom(text, i + 1, Append(cur, text[i]), acc)

Split(text) == SplitFrom(text, 1, <<>>, <<>>)

(* ======================= lines.join("\n") ============================= *)
RECURSIVE JoinFrom(_, _, _)
JoinFrom(ls, i, sep) ==
    IF i > Len(ls) THEN <<>>
    ELSE IF i = Len(ls) THEN ls[i]
    ELSE ls[i] \o <<sep>> \o JoinFrom(ls, i + 1, sep)

Join(ls) == JoinFrom(ls, 1, LF)

(* ========================== wrapText ================================== *)
\* server.js: (currentLine + " " + words[i]).length <= maxLength
FitsConcat(cur, w, max) == Len(cur \o <<SP>> \o w) <= max

\* (the same test with the joining space forgotten)
FitsSumNoSpace(cur, w, max) == Len(cur) + Len(w) <= max

\* part_000: currentLine.length + words[i].length + 1 <= maxLength
FitsSum(cur, w, max) == Len(cur) + Len(w) + 1 <= max

\* (the loop body with lines.push(currentLine) forgotten)
LoopBodyNoPush(ls, cur, w, fits) ==
    IF fits THEN [lines |-> ls, cur |-> cur \o <<SP>> \o w]
    ELSE [lines |-> ls, cur |-> w]

\* the loop body: append to the current line, or close it and start anew
LoopBody(ls, cur, w, fits) ==
    IF fits THEN [lines |-> ls, cur |-> cur \o <<SP>> \o w]
    ELSE [lines |-> Append(ls, cur), cur |-> w]

RECURSIVE WrapLoopA(_, _, _, _, _)
WrapLoopA(ws, i, ls, cur, max) ==
    IF i > Len(ws) THEN Join(Append(ls, cur))
    ELSE LET s == LoopBody(ls, cur, ws[i], FitsConcat(cur, ws[i], max))
         IN WrapLoopA(ws, i + 1, s.lines, s.cur, max)

RECURSIVE WrapLoopB(_, _, _, _, _)
WrapLoopB(ws, i, ls, cur, max) ==
    IF i > Len(ws) THEN Join(Append(ls, cur))
    ELSE LET s == LoopBody(ls, cur, ws[i], FitsSum(cur, ws[i], max))
         IN WrapLoopB(ws, i + 1, s.lines, s.cur, max)

wrapTextA(text, max) == WrapLoopA(Split(text), 2, <<>>, Split(text)[1], max)
wrapTextB(text, max) == WrapLoopB(Split(text), 2, <<>>, Split(text)[1], max)

\* default maxLength of each variant
WrapWidthA == 30
WrapWidthB == 50
WrapWidthC == 30


(* ================= wrapText as a loop (SpecWrap) ====================== *)
WrapIdle ==
    /\ wpc = "input" /\ wtext = <<>> /\ wmax = 0 /\ words = <<>> /\ wi = 0
    /\ linesA = <<>> /\ curA = <<>> /\ linesB = <<>> /\ curB = <<>>
    /\ outA = <<>> /\ outB = <<>>

EscIdle == epc = "input" /\ etext = <<>> /\ evariant = "A" /\ eout = <<>>

BlockIdle ==
    /\ bpc = "input"
    /\ fields = [doctorName |-> <<>>, degree |-> <<>>, mobile |-> <<>>, address |-> <<>>]
    /\ bvariant = "A" /\ textBlock = <<>>

\* the caller's text grows one character at a time
WType(c) ==
    /\ wpc = "input" /\ Len(wtext) < MaxWrapLen
    /\ wtext' = Append(wtext, c)
    /\ UNCHANGED <<wpc, wmax, words, wi, linesA, curA, linesB, curB, outA, outB>>
    /\ UNCHANGED <<escVars, blockVars, upVars>>

\* const words = text.split(" "); let lines = []; let currentLine = words[0];
WStart(m) ==
    /\ wpc = "input"
    /\ wmax' = m
    /\ words' = Split(wtext)
    /\ wi' = 2
    /\ linesA' = <<>> /\ curA' = Split(wtext)[1]
    /\ linesB' = <<>> /\ curB' = Split(wtext)[1]
    /\ wpc' = "loop"
    /\ UNCHANGED <<wtext, outA, outB>>
    /\ UNCHANGED <<escVars, blockVars, upVars>>

\* one iteration of the for loop, in both implementations
WStep ==
    /\ wpc = "loop" /\ wi <= Len(words)
    /\ LET a == LoopBody(linesA, curA, words[wi], FitsConcat(curA, words[wi], wmax))
           b == LoopBody(linesB, curB, words[wi], FitsSum(curB, words[wi], wmax))
       IN /\ linesA' = a.lines /\ curA' = a.cur
          /\ linesB' = b.lines /\ curB' = b.cur
    /\ wi' = wi + 1
    /\ UNCHANGED <<wpc, wtext, wmax, words, outA, outB>>
    /\ UNCHANGED <<escVars, blockVars, upVars>>

\* lines.push(currentLine); return lines.join("\n");
WFinish ==
    /\ wpc = "loop" /\ wi > Len(words)
    /\ outA' = Join(Append(linesA, curA))
    /\ outB' = Join(Append(linesB, curB))
    /\ wpc' = "done"
    /\ UNCHANGED <<wtext, wmax, words, wi, linesA, curA, linesB, curB>>
    /\ UNCHANGED <<escVars, blockVars, upVars>>

(* ---------- vocabulary of the claims about texts ---------------------- *)
Chars(text) == {text[i] : i \in 1..Len(text)}

\* the tokens of a text split on every character of seps
RECURSIVE TokensFrom(_, _, _, _, _)
TokensFrom(text, seps, i, cur, acc) ==
    IF i > Len(text) THEN Append(acc, cur)
    ELSE IF text[i] \in seps THEN TokensFrom(text, seps, i + 1, <<>>, Append(acc, cur))
    ELSE TokensFrom(text, seps, i + 1, Append(cur, text[i]), acc)

Tokens(text, seps) == TokensFrom(text, seps, 1, <<>>, <<>>)

\* out is text with some of its spaces turned into line-feeds, nothing else
OnlySpacesBroken(text, out) ==
    /\ Len(out) = Len(text)
    /\ \A i \in 1..Len(text) : out[i] = text[i] \/ (text[i] = SP /\ out[i] = LF)

(* ========================== escapeText ================================ *)
\* text.replace(/c/g, rep): every occurrence of c, left to right, in one pass
RECURSIVE ReplaceFrom(_, _, _, _)
ReplaceFrom(text, i, c, rep) ==
    IF i > Len(text) THEN <<>>
    ELSE (IF text[i] = c THEN rep ELSE <<text[i]>>) \o ReplaceFrom(text, i + 1, c, rep)

ReplaceAll(text, c, rep) == ReplaceFrom(text, 1, c, rep)

\* (server.js's substitutions with the backslash one moved to the end)
escapeTextA_BackslashLast(text) ==
    ReplaceAll(ReplaceAll(ReplaceAll(ReplaceAll(ReplaceAll(ReplaceAll(text,
        COLON, <<BS, COLON>>),
        COMMA, <<BS, COMMA>>),
        DOT, <<BS, DOT>>),
        QUOTE, <<BS, QUOTE>>),
        LF, <<BS, "n">>),
        BS, <<BS, BS>>)

\* server.js: backslash, colon, comma, dot, single quote, newline
escapeTextA(text) ==
    ReplaceAll(ReplaceAll(ReplaceAll(ReplaceAll(ReplaceAll(ReplaceAll(text,
        BS, <<BS, BS>>),
        COLON, <<BS, COLON>>),
        COMMA, <<BS, COMMA>>),
        DOT, <<BS, DOT>>),
        QUOTE, <<BS, QUOTE>>),
        LF, <<BS, "n">>)

\* part_000 (first variant): backslash, colon, single quote, then wrapped in quotes
escapeTextB(text) ==
    <<QUOTE>> \o
    ReplaceAll(ReplaceAll(ReplaceAll(text,
        BS, <<BS, BS>>),
        COLON, <<BS, COLON>>),
        QUOTE, <<BS, QUOTE>>)
    \o <<QUOTE>>

\* (the second variant's substitutions with the single-quote one left out)
escapeTextC_NoQuote(text) ==
    ReplaceAll(ReplaceAll(ReplaceAll(text,
        BS, <<BS, BS>>),
        COLON, <<BS, COLON>>),
        LF, <<BS, "n">>)

\* part_000 (second variant): backslash, colon, single quote, newline
escapeTextC(text) ==
    ReplaceAll(ReplaceAll(ReplaceAll(ReplaceAll(text,
        BS, <<BS, BS>>),
        COLON, <<BS, COLON>>),
        QUOTE, <<BS, QUOTE>>),
        LF, <<BS, "n">>)

escapeText(v, text) ==
    CASE v = "A" -> escapeTextA(text)
      [] v = "B" -> escapeTextB(text)
      [] v = "C" -> escapeTextC(text)

(* ================ escapeText on a free text (SpecEscape) =============== *)
EType(c) ==
    /\ epc = "input" /\ Len(etext) < MaxEscLen
    /\ etext' = Append(etext, c)
    /\ UNCHANGED <<epc, evariant, eout>>
    /\ UNCHANGED <<wrapVars, blockVars, upVars>>

EEscape(v) ==
    /\ epc = "input"
    /\ evariant' = v
    /\ eout' = escapeText(v, etext)
    /\ epc' = "done"
    /\ UNCHANGED etext
    /\ UNCHANGED <<wrapVars, blockVars, upVars>>

(* ============ processVideoWithBackground: the text block ============== *)
LabelDoctor == <<"D", "o", "c", "t", "o", "r", COLON, SP>>
LabelMobile == <<"M", "o", "b", "i", "l", "e", COLON, SP>>
LabelAddress == <<"A", "d", "d", "r", "e", "s", "s", COLON, SP>>
LabelDegree == <<"D", "e", "g", "r", "e", "e", COLON, SP>>

\* wrapText with the variant's own length test and default maxLength
wrapText(v, text) ==
    CASE v = "A" -> wrapTextA(text, WrapWidthA)
      [] v = "B" -> wrapTextB(text, WrapWidthB)
      [] v = "C" -> wrapTextB(text, WrapWidthC)

\* the four wrapped labeled lines, joined by "\n" in display order
rawTextBlock(v, f) ==
    wrapText(v, LabelDoctor \o f.doctorName) \o <<LF>> \o
    wrapText(v, LabelMobile \o f.mobile) \o <<LF>> \o
    wrapText(v, LabelAddress \o f.address) \o <<LF>> \o
    wrapText(v, LabelDegree \o f.degree)

\* const textBlock = ...: A quotes around escapeText, B quotes inside
\* escapeText, C no quotes at all
buildTextBlock(v, f) ==
    CASE v = "A" -> <<QUOTE>> \o escapeTextA(rawTextBlock(v, f)) \o <<QUOTE>>
      [] v = "B" -> escapeTextB(rawTextBlock(v, f))
      [] v = "C" -> escapeTextC(rawTextBlock(v, f))

FieldNames == {"doctorName", "degree", "mobile", "address"}

FieldChars ==
    Len(fields.doctorName) + Len(fields.degree) + Len(fields.mobile) + Len(fields.address)

\* the request's text fields grow one character at a time, in any order
BType(k, c) ==
    /\ bpc = "input" /\ FieldChars < MaxFieldChars
    /\ fields' = [fields EXCEPT ![k] = Append(@, c)]
    /\ UNCHANGED <<bpc, bvariant, textBlock>>
    /\ UNCHANGED <<wrapVars, escVars, upVars>>

BBuild(v) ==
    /\ bpc = "input"
    /\ bvariant' = v
    /\ textBlock' = buildTextBlock(v, fields)
    /\ bpc' = "done"
    /\ UNCHANGED fields
    /\ UNCHANGED <<wrapVars, escVars, upVars>>

(* ======================= POST /upload ================================= *)
Requests == 1..NumRequests
OrigNames == {"x", "y"}
NoFile == <<>>
NoName == -1
Absent == [owner |-> 0, complete |-> FALSE]

UpIdle ==
    /\ variant = "A" /\ clock = 0 /\ uploads = {}
    /\ processed = [n \in 0..MaxClock |-> Absent]
    /\ pc = [r \in Requests |-> "idle"]
    /\ uerr = [r \in Requests |-> FALSE]
    /\ rfiles = [r \in Requests |-> [video |-> NoFile, background |-> NoFile]]
    /\ fieldsOk = [r \in Requests |-> FALSE]
    /\ outName = [r \in Requests |-> NoName]
    /\ procOk = [r \in Requests |-> "none"]
    /\ responses = [r \in Requests |-> <<>>]
    /\ unhandled = [r \in Requests |-> FALSE]

\* Date.now() moves on between any two steps, or does not
Tick ==
    /\ clock < MaxClock
    /\ clock' = clock + 1
    /\ UNCHANGED <<variant, uploads, processed, pc, uerr, rfiles, fieldsOk,
                   outName, procOk, responses, unhandled>>
    /\ UNCHANGED <<wrapVars, escVars, blockVars>>

\* a request arrives; ok says whether its four text fields are all non-empty
Arrive(r, ok) ==
    /\ pc[r] = "idle"
    /\ pc' = [pc EXCEPT ![r] = "uploading"]
    /\ fieldsOk' = [fieldsOk EXCEPT ![r] = ok]
    /\ UNCHANGED <<variant, clock, uploads, processed, uerr, rfiles,
                   outName, procOk, responses, unhandled>>
    /\ UNCHANGED <<wrapVars, escVars, blockVars>>

\* multer disk storage: Date.now() + "_" + originalname, under uploadDir
StoreFile(r, k, orig) ==
    /\ pc[r] = "uploading" /\ rfiles[r][k] = NoFile
    /\ rfiles' = [rfiles EXCEPT ![r][k] = <<clock, orig>>]
    /\ uploads' = uploads \cup {<<clock, orig>>}
    /\ UNCHANGED <<variant, clock, processed, pc, uerr, fieldsOk,
                   outName, procOk, responses, unhandled>>
    /\ UNCHANGED <<wrapVars, escVars, blockVars>>

\* multer ends the upload: with an error (file type, size; it then removes
\* what it had stored for this request) or without
UploadEnd(r, err) ==
    /\ pc[r] = "uploading"
    /\ pc' = [pc EXCEPT ![r] = "uploaded"]
    /\ uerr' = [uerr EXCEPT ![r] = err]
    /\ uploads' = IF err THEN uploads \ {rfiles[r].video, rfiles[r].background}
                  ELSE uploads
    /\ rfiles' = IF err THEN [rfiles EXCEPT ![r] = [video |-> NoFile, background |-> NoFile]]
                 ELSE rfiles
    /\ UNCHANGED <<variant, clock, processed, fieldsOk,
                   outName, procOk, responses, unhandled>>
    /\ UNCHANGED <<wrapVars, escVars, blockVars>>

\* fs.unlinkSync over a list of paths: stops at the first call that throws
\* (the path is gone, or the file system refuses: fails[i])
RECURSIVE RunUnlinks(_, _, _)
RunUnlinks(up, paths, fails) ==
    IF paths = <<>> THEN [up |-> up, threw |-> FALSE]
    ELSE IF fails[1] \/ paths[1] \notin up THEN [up |-> up, threw |-> TRUE]
    ELSE RunUnlinks(up \ {paths[1]}, Tail(paths), Tail(fails))

Present(paths) == SelectSeq(paths, LAMBDA p : p # NoFile)

FailFlags == [1..2 -> BOOLEAN]

Reply(st, b, n) == [status |-> st, body |-> b, file |-> n]

\* the catch block of part_000: unlink video, unlink background, answer 500
\* with error.message; a throw in here leaves the async callback rejected
CatchBC(up, r, cause, fails) ==
    LET res == RunUnlinks(up, Present(<<rfiles[r].video, rfiles[r].background>>), fails)
    IN [up |-> res.up,
        resp |-> IF res.threw THEN <<>> ELSE <<Reply(500, cause, NoName)>>,
        escaped |-> res.threw]

\* the outcome of one run of handler code: files left, reply sent, escape
Outcome(r, o, nextpc) ==
    /\ uploads' = o.up
    /\ responses' = [responses EXCEPT ![r] = @ \o o.resp]
    /\ unhandled' = [unhandled EXCEPT ![r] = o.escaped]
    /\ pc' = [pc EXCEPT ![r] = nextpc]

Answer(up, st, b, n) == [up |-> up, resp |-> <<Reply(st, b, n)>>, escaped |-> FALSE]

\* server.js: the upload callback up to the await
HandleA(r) ==
    /\ variant = "A" /\ pc[r] = "uploaded"
    /\ IF uerr[r]
       THEN Outcome(r, Answer(uploads, 400, "upload", NoName), "done") /\ UNCHANGED outName
       ELSE IF rfiles[r].video = NoFile \/ rfiles[r].background = NoFile \/ ~fieldsOk[r]
       THEN Outcome(r, Answer(uploads, 400, "required", NoName), "done") /\ UNCHANGED outName
       ELSE /\ outName' = [outName EXCEPT ![r] = clock]
            /\ pc' = [pc EXCEPT ![r] = "running"]
            /\ UNCHANGED <<uploads, responses, unhandled>>
    /\ UNCHANGED <<variant, clock, processed, uerr, rfiles, fieldsOk, procOk>>
    /\ UNCHANGED <<wrapVars, escVars, blockVars>>

\* part_000 (both variants): the upload callback up to the await
HandleBC(r, f1, f2) ==
    /\ variant \in {"B", "C"} /\ pc[r] = "uploaded"
    /\ IF uerr[r]
       THEN Outcome(r, Answer(uploads, 400, "upload", NoName), "done") /\ UNCHANGED outName
       ELSE IF rfiles[r].video = NoFile
       THEN Outcome(r, Answer(uploads, 400, "novideo", NoName), "done") /\ UNCHANGED outName
       ELSE IF ~fieldsOk[r]
       THEN LET t == RunUnlinks(uploads,
                         Present(<<rfiles[r].video, rfiles[r].background>>), f1)
            IN /\ Outcome(r, IF t.threw THEN CatchBC(t.up, r, "unlink", f2)
                             ELSE Answer(t.up, 400, "required", NoName), "done")
               /\ UNCHANGED outName
       ELSE /\ outName' = [outName EXCEPT ![r] = clock]
            /\ pc' = [pc EXCEPT ![r] = "running"]
            /\ UNCHANGED <<uploads, responses, unhandled>>
    /\ UNCHANGED <<variant, clock, processed, uerr, rfiles, fieldsOk, procOk>>
    /\ UNCHANGED <<wrapVars, escVars, blockVars>>

InputsThere(r) ==
    /\ rfiles[r].video \in uploads
    /\ rfiles[r].background # NoFile /\ rfiles[r].background \in uploads

\* ffmpeg "end": the output file is complete under processedDir
FfmpegEnd(r) ==
    /\ pc[r] = "running" /\ InputsThere(r)
    /\ processed' = [processed EXCEPT ![outName[r]] = [owner |-> r, complete |-> TRUE]]
    /\ procOk' = [procOk EXCEPT ![r] = "ok"]
    /\ pc' = [pc EXCEPT ![r] = "settled"]
    /\ UNCHANGED <<variant, clock, uploads, uerr, rfiles, fieldsOk,
                   outName, responses, unhandled>>
    /\ UNCHANGED <<wrapVars, escVars, blockVars>>

\* ffmpeg "error" (or a throw while the command is built): the promise
\* rejects; a process that did start may leave a partial output file
FfmpegError(r, partial) ==
    /\ pc[r] = "running"
    /\ processed' = IF partial /\ InputsThere(r)
                    THEN [processed EXCEPT ![outName[r]] = [owner |-> r, complete |-> FALSE]]
                    ELSE processed
    /\ procOk' = [procOk EXCEPT ![r] = "failed"]
    /\ pc' = [pc EXCEPT ![r] = "settled"]
    /\ UNCHANGED <<variant, clock, uploads, uerr, rfiles, fieldsOk,
                   outName, responses, unhandled>>
    /\ UNCHANGED <<wrapVars, escVars, blockVars>>

\* server.js: after the await
FinishA(r, f1) ==
    /\ variant = "A" /\ pc[r] = "settled"
    /\ LET t == RunUnlinks(uploads, <<rfiles[r].video, rfiles[r].background>>, f1)
       IN Outcome(r, IF procOk[r] = "ok" /\ ~t.threw
                     THEN Answer(t.up, 200, "ok", outName[r])
                     ELSE IF procOk[r] = "ok"
                     THEN Answer(t.up, 500, "failed", NoName)
                     ELSE Answer(uploads, 500, "failed", NoName), "done")
    /\ UNCHANGED <<variant, clock, processed, uerr, rfiles, fieldsOk, outName, procOk>>
    /\ UNCHANGED <<wrapVars, escVars, blockVars>>

\* part_000 (both variants): after the await
FinishBC(r, f1, f2) ==
    /\ variant \in {"B", "C"} /\ pc[r] = "settled"
    /\ LET t == RunUnlinks(uploads,
                    Present(<<rfiles[r].background, rfiles[r].video>>), f1)
       IN Outcome(r, IF procOk[r] = "ok" /\ ~t.threw
                     THEN Answer(t.up, 200, "ok", outName[r])
                     ELSE IF procOk[r] = "ok"
                     THEN CatchBC(t.up, r, "unlink", f2)
                     ELSE CatchBC(uploads, r, "process", f2), "done")
    /\ UNCHANGED <<variant, clock, processed, uerr, rfiles, fieldsOk, outName, procOk>>
    /\ UNCHANGED <<wrapVars, escVars, blockVars>>

(* ======================== specifications ============================== *)
Init ==
    /\ WrapIdle /\ EscIdle /\ BlockIdle
    /\ variant \in Variants /\ clock = 0 /\ uploads = {}
    /\ processed = [n \in 0..MaxClock |-> Absent]
    /\ pc = [r \in Requests |-> "idle"]
    /\ uerr = [r \in Requests |-> FALSE]
    /\ rfiles = [r \in Requests |-> [video |-> NoFile, background |-> NoFile]]
    /\ fieldsOk = [r \in Requests |-> FALSE]
    /\ outName = [r \in Requests |-> NoName]
    /\ procOk = [r \in Requests |-> "none"]
    /\ responses = [r \in Requests |-> <<>>]
    /\ unhandled = [r \in Requests |-> FALSE]

Next ==
    \/ Tick
    \/ \E r \in Requests, ok \in BOOLEAN : Arrive(r, ok)
    \/ \E r \in Requests, k \in {"video", "background"}, o \in OrigNames : StoreFile(r, k, o)
    \/ \E r \in Requests, e \in BOOLEAN : UploadEnd(r, e)
    \/ \E r \in Requests : HandleA(r)
    \/ \E r \in Requests, f1 \in FailFlags, f2 \in FailFlags : HandleBC(r, f1, f2)
    \/ \E r \in Requests : FfmpegEnd(r)
    \/ \E r \in Requests, p \in BOOLEAN : FfmpegError(r, p)
    \/ \E r \in Requests, f1 \in FailFlags : FinishA(r, f1)
    \/ \E r \in Requests, f1 \in FailFlags, f2 \in FailFlags : FinishBC(r, f1, f2)

Spec == Init /\ [][Next]_vars

InitWrap == WrapIdle /\ EscIdle /\ BlockIdle /\ UpIdle

NextWrap ==
    \/ \E c \in WrapAlphabet : WType(c)
    \/ \E m \in 0..MaxWidth : WStart(m)
    \/ WStep
    \/ WFinish

SpecWrap == InitWrap /\ [][NextWrap]_vars

NextEscape ==
    \/ \E c \in EscAlphabet : EType(c)
    \/ \E v \in Variants : EEscape(v)

SpecEscape == InitWrap /\ [][NextEscape]_vars

NextBlock ==
    \/ \E k \in FieldNames, c \in FieldAlphabet : BType(k, c)
    \/ \E v \in Variants : BBuild(v)

SpecBlock == InitWrap /\ [][NextBlock]_vars

(* ============================ claims ================================== *)
\* the consumer's unescaping: backslash-n is a line-feed, a backslash
\* followed by any other character is that character
RECURSIVE UnescapeFrom(_, _)
UnescapeFrom(s, i) ==
    IF i > Len(s) THEN <<>>
    ELSE IF s[i] = BS /\ i < Len(s)
    THEN <<IF s[i + 1] = "n" THEN LF ELSE s[i + 1]>> \o UnescapeFrom(s, i + 2)
    ELSE <<s[i]>> \o UnescapeFrom(s, i + 1)

Unescape(s) == UnescapeFrom(s, 1)

\* read left to right, every backslash, colon and quote of s is either an
\* escaping backslash followed by a character, or the character it escapes
RECURSIVE EscapedFrom(_, _)
EscapedFrom(s, i) ==
    IF i > Len(s) THEN TRUE
    ELSE IF s[i] = BS THEN i < Len(s) /\ EscapedFrom(s, i + 2)
    ELSE s[i] \notin {BS, COLON, QUOTE} /\ EscapedFrom(s, i + 1)

WrappedInQuotes(s) == Len(s) >= 2 /\ s[1] = QUOTE /\ s[Len(s)] = QUOTE

\* what lies between the wrapping quotes of variants A and B; variant C
\* hands over the escaped text bare
TextArg(v, s) == IF v \in {"A", "B"} THEN SubSeq(s, 2, Len(s) - 1) ELSE s

\* the escaped text in escapeText's result: only variant B's escapeText
\* adds the wrapping quotes itself
EscapedPart(v, s) == IF v = "B" THEN SubSeq(s, 2, Len(s) - 1) ELSE s

AnsweredOk(r) == responses[r] # <<>> /\ responses[r][1].status = 200

\* C1: two distinct valid /upload requests whose handling interleaves are
\* given different output file names, so neither output is overwritten:
\* any two requests answered 200 name different files.
C1_DistinctOutputs ==
    \A r1, r2 \in Requests :
        (r1 # r2 /\ AnsweredOk(r1) /\ AnsweredOk(r2))
            => responses[r1][1].file # responses[r2][1].file

\* C2: when /upload answers 400 for a validation error (missing text field
\* or missing required file), every file the request stored in the uploads
\* directory has been removed and nothing was written under processed.
C2_NoSideEffectsOn400 ==
    \A r \in Requests :
        (/\ responses[r] # <<>>
         /\ responses[r][1].status = 400
         /\ responses[r][1].body \in {"required", "novideo"})
            => /\ rfiles[r].video \notin uploads
               /\ rfiles[r].background \notin uploads
               /\ \A n \in 0..MaxClock : processed[n].owner # r

\* C3: no failure inside the handling of a request (a failed deletion inside
\* the error path included) escapes the request boundary as an unhandled
\* rejection.
C3_NothingEscapes == \A r \in Requests : ~unhandled[r]

\* C4: a cleanup error does not mask the primary outcome: a request whose
\* media process succeeded is answered 200 with its file even when a
\* deletion fails afterwards, and a request whose process failed is answered
\* with the processing failure, not with a deletion failure.
C4_CleanupDoesNotMask ==
    \A r \in Requests :
        pc[r] = "done" =>
            /\ procOk[r] = "ok" => responses[r] = <<Reply(200, "ok", outName[r])>>
            /\ procOk[r] = "failed" =>
                   /\ responses[r] # <<>>
                   /\ responses[r][1].status = 500
                   /\ responses[r][1].body \in {"failed", "process"}

\* C10: every request that has run to its end has received exactly one
\* response, never before its media process exited: 400 when upload or
\* validation failed, 200 when the process succeeded, 500 when it failed,
\* whatever the deletions did.
C10_ExactlyOneResponse ==
    \A r \in Requests :
        /\ responses[r] # <<>> => pc[r] = "done"
        /\ pc[r] = "done" =>
               /\ Len(responses[r]) = 1
               /\ procOk[r] = "none" => responses[r][1].status = 400
               /\ procOk[r] = "ok" => responses[r][1].status = 200
               /\ procOk[r] = "failed" => responses[r][1].status = 500

\* C5: for every combination of the four text fields the text argument of
\* the block handed to drawtext holds no unescaped backslash, colon or
\* single quote.
C5_BlockFullyEscaped ==
    bpc = "done" => EscapedFrom(TextArg(bvariant, textBlock), 1)

C5_Witness ==
    /\ bpc = "done"
    /\ {BS, COLON, QUOTE} \subseteq
           Chars(fields.doctorName \o fields.degree \o fields.mobile \o fields.address)

\* C6: escape round-trips: the consumer's unescaping of escapeText(text)
\* is the text itself, for texts mixing backslash, colon, quote, line-feed.
C6_EscapeRoundTrips ==
    epc = "done" => Unescape(EscapedPart(evariant, eout)) = etext

C6_Witness ==
    /\ epc = "done" /\ evariant \in {"A", "C"}
    /\ {BS, COLON, QUOTE, LF} \subseteq Chars(etext)

\* C7: for fields whose labeled lines fit the wrap width the text block is
\* wrapped in single quotes and holds exactly the four lines Doctor, Mobile,
\* Address, Degree, in that order.
C7_QuotedFourLines ==
    bpc = "done" =>
        /\ WrappedInQuotes(textBlock)
        /\ Tokens(Unescape(SubSeq(textBlock, 2, Len(textBlock) - 1)), {LF})
               = << LabelDoctor \o fields.doctorName, LabelMobile \o fields.mobile,
                    LabelAddress \o fields.address, LabelDegree \o fields.degree >>

\* C8 as stated: for all inputs the tokens of the output, split on line-feeds
\* and spaces, are the tokens of the input split on single spaces.
C8_TokensPreserved ==
    wpc = "done" =>
        /\ Tokens(outA, {SP, LF}) = Split(wtext)
        /\ Tokens(outB, {SP, LF}) = Split(wtext)

\* C8 amended: for all inputs the output is the input with some spaces
\* replaced by line-feeds (no break inside a token; putting the spaces back
\* gives the input); for inputs without a line-feed the tokens of the output
\* split on line-feeds and spaces are the tokens of the input.
C8_NoBreakInsideToken ==
    wpc = "done" =>
        /\ OnlySpacesBroken(wtext, outA) /\ OnlySpacesBroken(wtext, outB)
        /\ LF \notin Chars(wtext) =>
               /\ Tokens(outA, {SP, LF}) = Split(wtext)
               /\ Tokens(outB, {SP, LF}) = Split(wtext)

C8_Witness ==
    /\ wpc = "done" /\ outA # wtext
    /\ \E i \in 1..Len(words) : Len(words[i]) > wmax
    /\ \E i \in 1..Len(words) : words[i] = <<>>

\* C9: the two wrap implementations agree step by step and in their result,
\* and both append a token iff len(currentLine) + 1 + len(token) <=
\* maxLineLength, otherwise close the line and start a new one with the token.
C9_WrapEquivalent ==
    [][ /\ (wpc = "loop" /\ wi <= Len(words)) =>
              LET tok == words[wi]
                  fit == Len(curA) + 1 + Len(tok) <= wmax
              IN /\ curA' = curB' /\ linesA' = linesB'
                 /\ fit => (curA' = curA \o <<SP>> \o tok /\ linesA' = linesA)
                 /\ ~fit => (curA' = tok /\ linesA' = Append(linesA, curA))
        /\ wpc' = "done" => outA' = outB' ]_vars

C9_Witness ==
    /\ wpc = "done" /\ outA = outB
    /\ Len(linesA) >= 1
    /\ \E i \in 1..Len(linesA) : SP \in Chars(linesA[i]) /\ Len(linesA[i]) = wmax
=============================================================================
